---- MODULE Spec2Model ----
(***************************************************************************)
(* ExpenseTracker (src/main.py): a single SQLite table `expenses` behind   *)
(* three asynchronous tools (add_expense, list_expenses, summarize), each  *)
(* of which opens its own connection, and a synchronous init_db that runs  *)
(* when the module is loaded.                                              *)
(*                                                                         *)
(* Encodings.                                                              *)
(*  - A date string is represented by its rank in lexicographic order      *)
(*    (1 < 2 < 3 stands for "2024-01-01" < "2024-01-15" < "2024-02-01"):   *)
(*    BETWEEN and ORDER BY on a TEXT column compare the strings bytewise.  *)
(*  - An amount is an integer number of units.                             *)
(*  - An Optional[str] is a set: None is {}, the string s is {s}.  SQL     *)
(*    NULL is the same {}.                                                 *)
(*  - A call is cut into steps at its awaits (connect, execute, commit or  *)
(*    fetchall); the exit of `async with` (close) and the return or raise  *)
(*    that follows it are part of the step that precedes them.             *)
(*  - SQLite in its default rollback-journal mode: an INSERT takes the     *)
(*    RESERVED lock of the file and keeps its row in the connection until  *)
(*    COMMIT; a SELECT with rows to fetch holds a SHARED lock from execute *)
(*    to the end of fetchall; COMMIT needs every other SHARED lock         *)
(*    released.  A lock that is not granted within the busy timeout of     *)
(*    the connection raises `database is locked`; the model abstracts      *)
(*    time, so a blocked call may wait or raise.                           *)
(*  - The calls are a set: a running call is told from the others by its   *)
(*    connection.  The records of ended calls are kept, with what they     *)
(*    returned or raised, until later calls take their place.              *)
(***************************************************************************)
EXTENDS Integers, Sequences, FiniteSets, TLC

\* ---------------------------------------------------------------- bounds
\* the calls the dispatcher runs at the same time
MaxCalls == 2

\* the rows the table comes to hold
MaxRows == 2

\* ---------------------------------------------------------------- values
None == {}

Some(s) == {s}

Dates == 1..3

Amounts == {1, 2}

Categories == {"", "Food", "Travel"}

OptCategories == {None} \cup {Some(c) : c \in Categories}

\* CREATE TABLE expenses(...): the columns, in order
ExpensesColumns == <<"id", "date", "amount", "category", "subcategory", "note">>

NoTable == <<>>

Range(f) == {f[i] : i \in DOMAIN f}

VARIABLES
    phase,          \* "loading" | "initialized" | "serving" | "aborted"
    startupError,   \* what init_db raised: "none" | "storage" | "table exists"
    schema,         \* NoTable, or the columns of the expenses table
    rows,           \* the committed rows of the table, in rowid order
    seq,            \* sqlite_sequence: the largest rowid ever committed
    calls,          \* the tool calls running, and the ended ones not yet replaced
    openConns,      \* the connections that are open
    returned,       \* history: [id, args] of every add_expense that returned success
    okCount         \* history: how many add_expense calls have returned success

vars == <<phase, startupError, schema, rows, seq, calls, openConns, returned, okCount>>

db == <<schema, rows, seq>>

hist == <<returned, okCount>>

\* A call: its tool, where it stands ("connected", "executed", "returned",
\* "raised"), its arguments, its connection, the row its connection has
\* inserted and not committed, the result set its cursor holds, the value it
\* returned, the error it raised and, for list_expenses, the history of which
\* add_expense calls had returned when it was issued.
Blank ==
    [op |-> "none", pc |-> "none", args |-> <<>>, conn |-> 0,
     pending |-> <<>>, cursor |-> <<>>, result |-> <<>>, error |-> "none",
     seen |-> {}]

\* ------------------------------------------------------- the two queries
\* (variant: the upper bound is left out)
BetweenExclusive(d, s, e) == d >= s /\ d < e

\* a BETWEEN s AND e: both bounds inclusive
Between(d, s, e) == d >= s /\ d <= e

\* Python truthiness of an Optional[str]: None and "" are both false
Truthy(opt) == opt # None /\ opt # Some("")

\* SELECT id, date, amount, category, subcategory, note
ListColumns == <<"id", "date", "amount", "category", "subcategory", "note">>

\* SELECT category, SUM(amount) AS total_amount, COUNT(*) AS count
SummaryColumns == <<"category", "total_amount", "count">>

\* dict(zip(cols, row))
DictZip(cols, row) ==
    [c \in Range(cols) |-> row[CHOOSE k \in DOMAIN cols : cols[k] = c]]

\* [dict(zip(cols, row)) for row in await cur.fetchall()]
DictRows(cols, fetched) == [k \in DOMAIN fetched |-> DictZip(cols, fetched[k])]

\* WHERE date BETWEEN ? AND ?, as the positions of the table it keeps
ListWhere(table, s, e) == {i \in DOMAIN table : Between(table[i].date, s, e)}

\* The result set of list_expenses' SELECT over the rows `table`: the rows the
\* WHERE keeps, each once, ORDER BY date DESC; rows of equal date come in any
\* order (SQL leaves it open), so this is the set of the possible result sets.
ListSelect(table, s, e) ==
    LET I == ListWhere(table, s, e)
        n == Cardinality(I)
        Orders == {f \in [1..n -> I] :
                      \A a, b \in 1..n :
                          a < b => /\ f[a] # f[b]
                                   /\ table[f[a]].date >= table[f[b]].date}
    IN  {[k \in 1..n |-> [j \in DOMAIN ListColumns |-> table[f[k]][ListColumns[j]]]] :
            f \in Orders}

\* The query text summarize builds: the category predicate is appended only
\* `if category:`.
HasCategoryPredicate(category) == Truthy(category)

\* (variant: the date range is not applied)
SummarizeWhereAnyDate(table, s, e, category) ==
    {i \in DOMAIN table :
        HasCategoryPredicate(category) => Some(table[i].category) = category}

\* WHERE date BETWEEN ? AND ? [AND category = ?]
SummarizeWhere(table, s, e, category) ==
    {i \in DOMAIN table :
        /\ Between(table[i].date, s, e)
        /\ HasCategoryPredicate(category) => Some(table[i].category) = category}

RECURSIVE SumAmount(_, _)
\* SUM(amount) over the rows at the positions I
SumAmount(table, I) ==
    IF I = {} THEN 0
    ELSE LET i == CHOOSE x \in I : TRUE
         IN  table[i].amount + SumAmount(table, I \ {i})

\* The result set of summarize's SELECT: one row per category among the rows
\* the WHERE keeps (GROUP BY category), ORDER BY total_amount DESC; groups of
\* equal total come in any order.
SummarizeSelect(table, s, e, category) ==
    LET I == SummarizeWhere(table, s, e, category)
        G == {table[i].category : i \in I}
        n == Cardinality(G)
        Members(c) == {i \in I : table[i].category = c}
        Total(c) == SumAmount(table, Members(c))
        Orders == {f \in [1..n -> G] :
                      \A a, b \in 1..n :
                          a < b => /\ f[a] # f[b]
                                   /\ Total(f[a]) >= Total(f[b])}
    IN  {[k \in 1..n |-> <<f[k], Total(f[k]), Cardinality(Members(f[k]))>>] :
            f \in Orders}

\* ------------------------------------------------------------ the store
Max(a, b) == IF a >= b THEN a ELSE b

\* (variant: the table is dropped and created again)
CreateTableAfresh(sch, rs, sq) ==
    [schema |-> ExpensesColumns, rows |-> <<>>, seq |-> 0, raised |-> FALSE]

\* CREATE TABLE IF NOT EXISTS expenses (...) on the database <<sch, rs, sq>>
CreateTableIfNotExists(sch, rs, sq) ==
    IF sch = NoTable
    THEN [schema |-> ExpensesColumns, rows |-> <<>>, seq |-> 0, raised |-> FALSE]
    ELSE [schema |-> sch, rows |-> rs, seq |-> sq, raised |-> FALSE]

\* id INTEGER PRIMARY KEY AUTOINCREMENT: one more than the largest rowid the
\* table has ever held
NextRowid(table, sq) ==
    Max(sq, IF table = <<>> THEN 0 ELSE table[Len(table)].id) + 1

\* (variant: an absent note is stored as the empty string)
InsertRowEmptyNote(id, a) ==
    [id |-> id, date |-> a.date, amount |-> a.amount, category |-> a.category,
     subcategory |-> a.subcategory, note |-> IF a.note = None THEN Some("") ELSE a.note]

\* INSERT INTO expenses(date, amount, category, subcategory, note)
\*   VALUES (?, ?, ?, ?, ?) with (date, amount, category, subcategory, note)
InsertRow(id, a) ==
    [id |-> id, date |-> a.date, amount |-> a.amount, category |-> a.category,
     subcategory |-> a.subcategory, note |-> a.note]

\* {"status": "success", "id": cur.lastrowid}
AddResult(lastrowid) == [status |-> "success", id |-> lastrowid]

IsAdd(c) == c.op = "add_expense"

IsRead(c) == c.op \in {"list_expenses", "summarize"}

InFlight(c) == c.pc \in {"connected", "executed"}

Running == {c \in calls : InFlight(c)}

\* the calls whose connection holds the RESERVED lock (INSERT done, no COMMIT)
Writers == {c \in calls : IsAdd(c) /\ c.pc = "executed"}

\* the calls whose connection holds a SHARED lock: a SELECT whose rows are
\* not fetched yet (execute steps the statement once, which ends it when the
\* result set is empty)
Readers == {c \in calls : IsRead(c) /\ c.pc = "executed" /\ c.cursor # <<>>}

\* (variant: no write lock)
CanReserveAlways(c) == TRUE

\* SQLite grants RESERVED to one connection at a time
CanReserve(c) == Writers \ {c} = {}

\* COMMIT needs the EXCLUSIVE lock: no other connection may be reading
CanCommit(c) == Readers \ {c} = {}

\* (variant: a SELECT also reads what other connections have not committed)
SnapshotUncommitted(c) ==
    IF Writers \ {c} = {} THEN rows
    ELSE rows \o (CHOOSE v \in Writers \ {c} : TRUE).pending

\* What a SELECT on the connection of call c reads: the committed rows; the
\* uncommitted row of another connection is not visible to it.
Snapshot(c) == rows

\* the handle of a new connection: the smallest one not in use
NewConn == CHOOSE n \in 1..(Cardinality(openConns) + 1) :
               /\ n \notin openConns
               /\ \A d \in 1..(n - 1) : d \in openConns

\* (variant: the connection is left open)
ReleaseNothing(conns, n) == conns

\* __aexit__ of `async with aiosqlite.connect(...)`: the connection is closed
Release(conns, n) == conns \ {n}

\* (variant: closing writes out what was not committed)
CloseUncommittedKeeps(table, pending) == table \o pending

\* the table after a connection holding the uncommitted rows `pending` is
\* closed: sqlite3 rolls back what was not committed
CloseUncommitted(table, pending) == table

\* the call c once it has returned `result`; it has no connection any more
Returned(c, result) ==
    [c EXCEPT !.pc = "returned", !.conn = 0, !.pending = <<>>, !.cursor = <<>>,
              !.result = result]

\* a call of the tool `op` once it has raised `err`
Raised(op, err) == [Blank EXCEPT !.op = op, !.pc = "raised", !.error = err]

\* The dispatcher runs at most `cap` calls at a time; the record of an ended
\* call is kept until a later call takes its place.
Start(cap, c) ==
    /\ Cardinality(Running) < cap
    /\ \/ /\ Cardinality(calls) < cap
          /\ calls' = calls \cup {c}
       \/ \E old \in calls \ Running : calls' = (calls \ {old}) \cup {c}

Step(c, d) == calls' = (calls \ {c}) \cup {d}

\* the call c ends by raising `err`; its connection is closed
Raise(c, err) ==
    /\ Step(c, Raised(c.op, err))
    /\ openConns' = Release(openConns, c.conn)
    /\ rows' = CloseUncommitted(rows, c.pending)

\* ------------------------------------------------------------- start-up
\* line 30: init_db() runs while the module is loaded
InitDb ==
    /\ phase = "loading"
    /\ LET r == CreateTableIfNotExists(schema, rows, seq)
       IN  /\ schema' = r.schema
           /\ rows' = r.rows
           /\ seq' = r.seq
           /\ phase' = IF r.raised THEN "aborted" ELSE "initialized"
           /\ startupError' = IF r.raised THEN "table exists" ELSE "none"
    /\ UNCHANGED <<calls, openConns, hist>>

\* sqlite3.connect or execute fails in init_db: the exception ends the import
InitDbFail ==
    /\ phase = "loading"
    /\ phase' = "aborted"
    /\ startupError' = "storage"
    /\ UNCHANGED <<db, calls, openConns, hist>>

\* (variant: calls are accepted while the module is still loading)
AcceptingWhileLoading == phase \in {"loading", "serving"}

\* when the dispatcher may hand a tool call to the module
Accepting == phase = "serving"

\* line 121: mcp.run(...) starts to accept tool calls
Serve ==
    /\ phase = "initialized"
    /\ phase' = "serving"
    /\ UNCHANGED <<startupError, db, calls, openConns, hist>>

\* The process ends and the module is run again: the database file stays,
\* every connection of the old process is gone and with it what it had not
\* committed.
Restart ==
    /\ phase \in {"serving", "aborted"}
    /\ phase' = "loading"
    /\ startupError' = "none"
    /\ calls' = {}
    /\ openConns' = {}
    /\ UNCHANGED <<db, hist>>

\* ---------------------------------------------------------- add_expense
\* the call starts and `aiosqlite.connect` gives it a connection
AddConnect(cap, a) ==
    /\ Accepting
    /\ Len(rows) + Cardinality({c \in Running : IsAdd(c)}) < MaxRows
    /\ Start(cap, [Blank EXCEPT !.op = "add_expense", !.pc = "connected",
                                !.args = a, !.conn = NewConn])
    /\ openConns' = openConns \cup {NewConn}
    /\ UNCHANGED <<phase, startupError, db, hist>>

\* db.execute(INSERT ...): takes the RESERVED lock, the row stays uncommitted
AddExecute(c) ==
    /\ IsAdd(c) /\ c.pc = "connected"
    /\ IF schema = NoTable
       THEN Raise(c, "no such table")
       ELSE /\ CanReserve(c)
            /\ Step(c, [c EXCEPT !.pc = "executed",
                                 !.pending = <<InsertRow(NextRowid(rows, seq), c.args)>>])
            /\ UNCHANGED <<openConns, rows>>
    /\ UNCHANGED <<phase, startupError, schema, seq, hist>>

\* db.execute raises: the write lock is not granted in time, or the write fails
AddExecuteFail(c, err) ==
    /\ IsAdd(c) /\ c.pc = "connected"
    /\ err = "locked" => ~CanReserve(c)
    /\ Raise(c, err)
    /\ UNCHANGED <<phase, startupError, schema, seq, hist>>

\* db.commit() succeeds; the connection is closed; the call returns
AddCommit(c) ==
    /\ IsAdd(c) /\ c.pc = "executed"
    /\ CanCommit(c)
    /\ LET row == c.pending[1]
       IN  /\ rows' = Append(rows, row)
           /\ seq' = Max(seq, row.id)
           /\ Step(c, Returned(c, <<AddResult(row.id)>>))
           /\ returned' = returned \cup {[id |-> row.id, args |-> c.args]}
           /\ okCount' = okCount + 1
    /\ openConns' = Release(openConns, c.conn)
    /\ UNCHANGED <<phase, startupError, schema>>

\* db.commit() raises: readers keep their locks too long, or the write fails
AddCommitFail(c, err) ==
    /\ IsAdd(c) /\ c.pc = "executed"
    /\ err = "locked" => ~CanCommit(c)
    /\ Raise(c, err)
    /\ UNCHANGED <<phase, startupError, schema, seq, hist>>

\* -------------------------------------------------------- list_expenses
\* the call starts and `aiosqlite.connect` gives it a connection
ListConnect(cap, s, e) ==
    /\ Accepting
    /\ Start(cap, [Blank EXCEPT !.op = "list_expenses", !.pc = "connected",
                                !.args = [start_date |-> s, end_date |-> e],
                                !.conn = NewConn, !.seen = returned])
    /\ openConns' = openConns \cup {NewConn}
    /\ UNCHANGED <<phase, startupError, db, hist>>

\* db.execute(SELECT ...): the cursor holds the result set, read under a
\* SHARED lock that lasts until the rows are fetched
ListExecute(c) ==
    /\ c.op = "list_expenses" /\ c.pc = "connected"
    /\ IF schema = NoTable
       THEN Raise(c, "no such table")
       ELSE /\ \E r \in ListSelect(Snapshot(c), c.args.start_date, c.args.end_date) :
                   Step(c, [c EXCEPT !.pc = "executed", !.cursor = r])
            /\ UNCHANGED <<openConns, rows>>
    /\ UNCHANGED <<phase, startupError, schema, seq, hist>>

\* cols from cur.description, the rows from fetchall, one dict per row; the
\* connection is closed; the call returns
ListFetch(c) ==
    /\ c.op = "list_expenses" /\ c.pc = "executed"
    /\ Step(c, Returned(c, DictRows(ListColumns, c.cursor)))
    /\ openConns' = Release(openConns, c.conn)
    /\ UNCHANGED <<phase, startupError, db, hist>>

\* ------------------------------------------------------------ summarize
\* the query and its parameters are built, then the call connects
SummarizeConnect(cap, s, e, category) ==
    /\ Accepting
    /\ Start(cap, [Blank EXCEPT !.op = "summarize", !.pc = "connected",
                                !.args = [start_date |-> s, end_date |-> e,
                                          category |-> category],
                                !.conn = NewConn])
    /\ openConns' = openConns \cup {NewConn}
    /\ UNCHANGED <<phase, startupError, db, hist>>

\* db.execute(query, params)
SummarizeExecute(c) ==
    /\ c.op = "summarize" /\ c.pc = "connected"
    /\ IF schema = NoTable
       THEN Raise(c, "no such table")
       ELSE /\ \E r \in SummarizeSelect(Snapshot(c), c.args.start_date, c.args.end_date,
                                        c.args.category) :
                   Step(c, [c EXCEPT !.pc = "executed", !.cursor = r])
            /\ UNCHANGED <<openConns, rows>>
    /\ UNCHANGED <<phase, startupError, schema, seq, hist>>

\* one dict per fetched row; the connection is closed; the call returns
SummarizeFetch(c) ==
    /\ c.op = "summarize" /\ c.pc = "executed"
    /\ Step(c, Returned(c, DictRows(SummaryColumns, c.cursor)))
    /\ openConns' = Release(openConns, c.conn)
    /\ UNCHANGED <<phase, startupError, db, hist>>

\* db.execute or fetchall of a read raises (the file cannot be read)
ReadFail(c) ==
    /\ IsRead(c) /\ InFlight(c)
    /\ Raise(c, "io")
    /\ UNCHANGED <<phase, startupError, schema, seq, hist>>

\* aiosqlite.connect raises: the call ends without a connection
ConnectFail(cap, op) ==
    /\ Accepting
    /\ Start(cap, Raised(op, "io"))
    /\ UNCHANGED <<phase, startupError, db, openConns, hist>>

\* ------------------------------------------------------- specifications
\* The arguments the calls of Spec are drawn from.
StoreAdds ==
    {[date |-> 1, amount |-> 1, category |-> "Food", subcategory |-> None, note |-> None],
     [date |-> 2, amount |-> 2, category |-> "Travel", subcategory |-> Some("Taxi"),
      note |-> Some("x")]}

StoreRanges == {<<1, 3>>}

StoreSummaries == {<<1, 3, None>>, <<2, 3, Some("Food")>>}

Errors == {"locked", "io"}

Tools == {"add_expense", "list_expenses", "summarize"}

Init ==
    /\ phase = "loading"
    /\ startupError = "none"
    /\ schema = NoTable
    /\ rows = <<>>
    /\ seq = 0
    /\ calls = {}
    /\ openConns = {}
    /\ returned = {}
    /\ okCount = 0

Next ==
    \/ InitDb
    \/ InitDbFail
    \/ Serve
    \/ Restart
    \/ \E a \in StoreAdds : AddConnect(MaxCalls, a)
    \/ \E r \in StoreRanges : ListConnect(MaxCalls, r[1], r[2])
    \/ \E q \in StoreSummaries : SummarizeConnect(MaxCalls, q[1], q[2], q[3])
    \/ \E op \in Tools : ConnectFail(MaxCalls, op)
    \/ \E c \in calls : AddExecute(c)
    \/ \E c \in calls : \E err \in Errors : AddExecuteFail(c, err)
    \/ \E c \in calls : AddCommit(c)
    \/ \E c \in calls : \E err \in Errors : AddCommitFail(c, err)
    \/ \E c \in calls : ListExecute(c)
    \/ \E c \in calls : ListFetch(c)
    \/ \E c \in calls : SummarizeExecute(c)
    \/ \E c \in calls : SummarizeFetch(c)
    \/ \E c \in calls : ReadFail(c)

Spec == Init /\ [][Next]_vars

\* The two queries as functions of the table: the server runs on a database
\* file that already holds any rows at all and answers read calls, one at a
\* time, with any arguments.
QueryRows ==
    {[date |-> d, amount |-> a, category |-> c, subcategory |-> None, note |-> None] :
        d \in Dates, a \in Amounts, c \in Categories}

QueryTables ==
    UNION {{[k \in 1..n |-> InsertRow(k, f[k])] : f \in [1..n -> QueryRows]} : n \in 0..MaxRows}

QueryInit ==
    /\ phase = "serving"
    /\ startupError = "none"
    /\ schema = ExpensesColumns
    /\ rows \in QueryTables
    /\ seq = Len(rows)
    /\ calls = {}
    /\ openConns = {}
    /\ returned = {}
    /\ okCount = 0

QueryNext ==
    \/ \E s, e \in Dates : ListConnect(1, s, e)
    \/ \E s, e \in Dates : \E c \in OptCategories : SummarizeConnect(1, s, e, c)
    \/ \E c \in calls : ListExecute(c)
    \/ \E c \in calls : ListFetch(c)
    \/ \E c \in calls : SummarizeExecute(c)
    \/ \E c \in calls : SummarizeFetch(c)

SpecQuery == QueryInit /\ [][QueryNext]_vars

\* ---------------------------------------------------------- properties
ReturnedCalls(op) == {c \in calls : c.op = op /\ c.pc = "returned"}

RaisedCalls(op) == {c \in calls : c.op = op /\ c.pc = "raised"}

ReturnedIds == {r.id : r \in returned}

\* the row that add_expense(args) returning id is to have stored
RowOf(id, a) ==
    [id |-> id, date |-> a.date, amount |-> a.amount, category |-> a.category,
     subcategory |-> a.subcategory, note |-> a.note]

\* the positions of the result `res` that carry the id `id`
Hits(res, id) == {k \in DOMAIN res : res[k].id = id}

\* the full range of dates
FullRange(a) == a.start_date = 1 /\ a.end_date = 3

\* C1 as stated: concurrent add_expense calls all succeed (no call ends with
\* `database is locked`), the ids they return are pairwise distinct, and a
\* list_expenses over the full range issued after they have all returned has
\* as many rows as there were calls.
C1_AllAddsSucceed ==
    /\ \A c \in RaisedCalls("add_expense") : c.error # "locked"
    /\ Cardinality(ReturnedIds) = okCount
    /\ \A c \in ReturnedCalls("list_expenses") :
          (FullRange(c.args) /\ c.seen = returned) => Len(c.result) = okCount

\* C1 amended: a concurrent add_expense call either succeeds or raises and
\* returns no id; the ids returned by the calls that succeed are pairwise
\* distinct, and a list_expenses over the full range issued after all of
\* them have returned has exactly as many rows as calls succeeded.
C1_AddsDistinctAndCounted ==
    /\ \A c \in RaisedCalls("add_expense") : c.result = <<>>
    /\ Cardinality(ReturnedIds) = okCount
    /\ \A c \in ReturnedCalls("list_expenses") :
          (FullRange(c.args) /\ c.seen = returned) => Len(c.result) = okCount

C1_Witness ==
    /\ okCount = 2
    /\ \E c \in RaisedCalls("add_expense") : c.error = "locked"
    /\ \E c \in ReturnedCalls("list_expenses") :
          FullRange(c.args) /\ c.seen = returned /\ Len(c.result) = 2

\* C2: add_expense has no partial success.  A call that returned has returned
\* {status: "success", id} and the table holds exactly one row with that id,
\* the row of its arguments; a call that raised returned no id; and the table
\* holds no row but those of the calls that returned (so none of a call that
\* raised at execute or at commit).
C2_NoPartialSuccess ==
    /\ \A c \in ReturnedCalls("add_expense") :
          /\ Len(c.result) = 1
          /\ c.result[1].status = "success"
          /\ Cardinality({i \in DOMAIN rows : rows[i].id = c.result[1].id}) = 1
          /\ \A i \in DOMAIN rows :
                rows[i].id = c.result[1].id => rows[i] = RowOf(c.result[1].id, c.args)
    /\ \A c \in RaisedCalls("add_expense") : c.result = <<>>
    /\ Len(rows) = okCount
    /\ \A i \in DOMAIN rows : rows[i].id \in ReturnedIds

C2_Witness ==
    /\ ReturnedCalls("add_expense") # {}
    /\ RaisedCalls("add_expense") # {}
    /\ Len(rows) = 1

\* C3: a list_expenses(s, e) issued after add_expense(d, a, c), without
\* subcategory and note, has returned id N, with s <= d <= e, returns exactly
\* one row with id N, and that row is {N, d, a, c, null, null}.
C3_InsertThenList ==
    \A c \in ReturnedCalls("list_expenses") :
        \A r \in c.seen :
            ( /\ r.args.subcategory = None
              /\ r.args.note = None
              /\ c.args.start_date <= r.args.date
              /\ r.args.date <= c.args.end_date )
            => /\ Cardinality(Hits(c.result, r.id)) = 1
               /\ \A k \in Hits(c.result, r.id) :
                     c.result[k] = [id |-> r.id, date |-> r.args.date,
                                    amount |-> r.args.amount,
                                    category |-> r.args.category,
                                    subcategory |-> None, note |-> None]

C3_Witness ==
    \E c \in ReturnedCalls("list_expenses") :
        \E r \in c.seen :
            /\ r.args.subcategory = None /\ r.args.note = None
            /\ c.args.start_date <= r.args.date /\ r.args.date <= c.args.end_date
            /\ Hits(c.result, r.id) # {}
            /\ Len(c.result) = 2

InRange(i, a) == a.start_date <= rows[i].date /\ rows[i].date <= a.end_date

\* C4: list_expenses(s, e) returns exactly the rows of the table whose date d
\* has s <= d <= e, each once, in an order that is non-increasing by date
\* (and so the empty sequence when no row matches).
C4_ListExact ==
    \A c \in ReturnedCalls("list_expenses") :
        /\ \A i \in DOMAIN rows :
              InRange(i, c.args) <=> \E k \in DOMAIN c.result : c.result[k] = rows[i]
        /\ \A k \in DOMAIN c.result : \E i \in DOMAIN rows : c.result[k] = rows[i]
        /\ Len(c.result) = Cardinality({i \in DOMAIN rows : InRange(i, c.args)})
        /\ \A j, k \in DOMAIN c.result : j < k => c.result[j].date >= c.result[k].date

C4_Witness ==
    \E c \in ReturnedCalls("list_expenses") :
        /\ Len(rows) = 2
        /\ Len(c.result) = 1
        /\ c.result[1].date = c.args.end_date
        /\ c.args.start_date < c.args.end_date

\* the in-range rows of category g
Group(g, a) == {i \in DOMAIN rows : InRange(i, a) /\ rows[i].category = g}

RECURSIVE Total(_)
Total(I) == IF I = {} THEN 0
            ELSE LET i == CHOOSE x \in I : TRUE IN rows[i].amount + Total(I \ {i})

\* the entry of a summary for the category g
Entry(g, a) ==
    [category |-> g, total_amount |-> Total(Group(g, a)), count |-> Cardinality(Group(g, a))]

\* C5: summarize(s, e) without category returns one entry per category that
\* has a row in the range, with the sum and the number of those rows, the
\* entries in an order that is non-increasing by total_amount; rows outside
\* the range contribute to nothing.
C5_SummaryExact ==
    \A c \in ReturnedCalls("summarize") :
        c.args.category = None =>
            LET G == {rows[i].category : i \in {j \in DOMAIN rows : InRange(j, c.args)}}
            IN  /\ Len(c.result) = Cardinality(G)
                /\ \A g \in G : \E k \in DOMAIN c.result : c.result[k] = Entry(g, c.args)
                /\ \A k \in DOMAIN c.result : c.result[k].category \in G
                /\ \A j, k \in DOMAIN c.result :
                      j < k => c.result[j].total_amount >= c.result[k].total_amount

C5_Witness ==
    \E c \in ReturnedCalls("summarize") :
        /\ c.args.category = None
        /\ Len(c.result) = 1
        /\ c.result[1].count = 2
        /\ c.result[1].total_amount = 3

\* C6: summarize(s, e, category = g), for any string g, is computed from the
\* in-range rows of category g only: at most one entry, and that entry is
\* the one of g.
C6_CategoryFilterExact ==
    \A c \in ReturnedCalls("summarize") :
        \A g \in Categories :
            c.args.category = Some(g) =>
                /\ Len(c.result) <= 1
                /\ \A k \in DOMAIN c.result : c.result[k] = Entry(g, c.args)
                /\ Group(g, c.args) # {} => Len(c.result) = 1

\* C7: init_db on a database that has the table does not raise because of
\* it and changes neither the table's columns nor its rows.
C7_InitDbIdempotent ==
    [][(phase = "loading" /\ phase' # "loading" /\ schema # NoTable)
          => /\ schema' = schema
             /\ rows' = rows
             /\ seq' = seq
             /\ startupError' # "table exists"]_vars

C7_Witness == phase = "initialized" /\ Len(rows) = 2

\* the values list_expenses(a) can return on the table `table`
ListValues(table, a) ==
    {DictRows(ListColumns, r) : r \in ListSelect(table, a.start_date, a.end_date)}

\* the values summarize(a) can return on the table `table`
SummaryValues(table, a) ==
    {DictRows(SummaryColumns, r) :
        r \in SummarizeSelect(table, a.start_date, a.end_date, a.category)}

\* the tables there have been: no row is ever changed or deleted
CommittedTables == {SubSeq(rows, 1, n) : n \in 0..Len(rows)}

\* C8: what list_expenses or summarize returns is computed from a committed
\* table: whole rows only, and no row of an insert that is not committed.
C8_ReadsSeeCommitted ==
    /\ \A c \in ReturnedCalls("list_expenses") :
          \E t \in CommittedTables : c.result \in ListValues(t, c.args)
    /\ \A c \in ReturnedCalls("summarize") :
          \E t \in CommittedTables : c.result \in SummaryValues(t, c.args)

C8_Witness ==
    /\ \E c \in Writers : c.pending # <<>>
    /\ \E c \in ReturnedCalls("list_expenses") : Len(c.result) = 1
    /\ Len(rows) = 1

\* C9: no tool call runs unless init_db has completed and the table exists;
\* when init_db raised, no call is ever accepted.
C9_TableBeforeCalls ==
    /\ calls # {} => (phase = "serving" /\ schema = ExpensesColumns)
    /\ \A c \in calls : c.error # "no such table"

C9_Witness == \E c \in calls : c.pc = "executed" /\ schema = ExpensesColumns

\* C10: every running call has an open connection of its own, a call that
\* has ended (returned or raised) has none, and no connection is open that
\* is not the connection of a running call.
C10_ConnectionsScoped ==
    /\ \A c \in Running : c.conn \in openConns
    /\ \A c, d \in Running : c # d => c.conn # d.conn
    /\ \A c \in calls \ Running : c.conn = 0
    /\ openConns = {c.conn : c \in Running}

C10_Witness ==
    /\ openConns = {}
    /\ \E c \in calls : c.pc = "raised" /\ c.error = "locked"
    /\ \E c \in calls : c.pc = "returned"

====
